---------------------------- MODULE Spec2Model ----------------------------
(***************************************************************************)
(* A model of server.js, the Homework Calendar backend: an Express app     *)
(* over one better-sqlite3 connection.  The state is the two tables, the   *)
(* clock, the open transaction, and the requests in flight.  A request     *)
(* waits once, on the token verification (the only await of the file);     *)
(* from there its handler runs on the JavaScript call stack to the end.    *)
(* The four single-statement handlers are one action each; the sync        *)
(* handler is one action per statement of its transaction, and nothing     *)
(* else may run while it is on the stack.                                  *)
(***************************************************************************)
EXTENDS Integers, Sequences, FiniteSets, TLC

VARIABLES
    table,      \* the assignments table: its rows in rowid order
    users,      \* the users table: a set of rows
    now,        \* the clock, in milliseconds
    tx,         \* the connection's transaction: open?, and the rollback image
    pc,         \* per request slot: idle, verify, sync, done
    req,        \* per slot: the request's user (token subject) and route
    body,       \* per slot: req.params and req.body, as the handler reads them
    k,          \* per slot: the sync loop's position in the payload
    genIds,     \* per slot: the id each inserted sync item was bound with
    resp,       \* per slot: the response sent
    runs,       \* history: number of handlers started so far
    ord,        \* history: per slot, the start ordinal of its handler
    pre,        \* history: the table when the latest handler started
    overlap     \* history: per slot, the slots in flight when its handler started

vars == <<table, users, now, tx, pc, req, body, k, genIds, resp, runs, ord, pre, overlap>>

-----------------------------------------------------------------------------
(* Bounds of the model.                                                    *)

MaxClock == 2       \* the clock runs over 1..MaxClock
MaxItems == 2       \* longest sync payload

Slots == {"r1", "r2"}       \* the requests of a run, in order of arrival
Users == {"A", "B"}         \* token subjects
Routes == {"list", "create", "update", "delete", "sync"}

-----------------------------------------------------------------------------
(* JavaScript values that are not strings of the data.                     *)

Undefined == "<undefined>"
Null == "<null>"
JsTrue == "<true>"
JsFalse == "<false>"

\* ToBoolean, as `!x`, `x || y` and `x ? a : b` apply it.
Truthy(v) == v \notin {Undefined, Null, JsFalse, ""}

\* x || y
OrElse(x, y) == IF Truthy(x) THEN x ELSE y

Digit == <<"0", "1", "2", "3", "4", "5", "6", "7", "8", "9">>

\* Number.prototype.toString, of a non-negative integer.
RECURSIVE NatToStr(_)
NatToStr(n) ==
    IF n < 10 THEN Digit[n + 1]
    ELSE NatToStr(n \div 10) \o Digit[(n % 10) + 1]

\* Date.now().toString()
DateNowString(t) == NatToStr(t)

\* new Date().toISOString()
IsoString(t) == "iso:" \o NatToStr(t)

\* SQLite's CURRENT_TIMESTAMP: the time to the second, of a clock in
\* milliseconds.
CurrentTimestamp(t) == "sql:" \o NatToStr(t \div 1000)

\* Math.random().toString(36).substr(2, 9): empty when the draw is 0.
RandomSuffixes == {"", "k3f"}


-----------------------------------------------------------------------------
(* The data the requests draw on.                                          *)

CallerIds == {"a", "b"}     \* ids a client may put in a URL or a body

Identity(u) ==
    [id |-> u, email |-> u \o "@example.org", name |-> "user " \o u,
     picture |-> Null]

\* The payloads of the tokens that verify: each user's own, and one of B
\* issued after B's account took the address A's account had.
Moved == [Identity("B") EXCEPT !.email = Identity("A").email]

TokenPayloads == {Identity(u) : u \in Users} \cup {Moved}

Item(id, title, subject, type, dueDate, description, completed, createdAt) ==
    [id |-> id, title |-> title, subject |-> subject, type |-> type,
     dueDate |-> dueDate, description |-> description,
     completed |-> completed, createdAt |-> createdAt]

Essay(id) ==
    Item(id, "Essay", "English", "homework", "2024-06-01",
         Undefined, Undefined, Undefined)

Quiz(id) ==
    Item(id, "Quiz", "Math", "test", "2024-05-01",
         "ch. 3", JsTrue, "2024-01-01T00:00:00.000Z")

\* An item whose description is the empty string.
Blank(id) ==
    Item(id, "Lab", "Physics", "project", "2024-06-01",
         "", JsFalse, Undefined)

\* A malformed item: no title.
Untitled(id) == [Essay(id) EXCEPT !.title = Undefined]

Items == {Essay(Undefined), Quiz("a"), Blank("a"), Untitled("b")}

\* Bodies of a POST /api/assignments with a required field empty or absent.
NoTitle == [Essay("b") EXCEPT !.title = ""]
NoSubject == [Essay("b") EXCEPT !.subject = Undefined]
NoType == [Essay("b") EXCEPT !.type = Null]
NoDueDate == [Essay("b") EXCEPT !.dueDate = ""]

\* A body whose completed is a truthy value that is not a boolean.
Flagged == [Essay("b") EXCEPT !.completed = "yes"]

\* req.body of a POST /api/assignments
CreateBodies == Items \cup {NoTitle, NoSubject, NoType, NoDueDate, Flagged}

\* The field set of a PUT body; Undefined is a field the body does not carry.
Patch(title, subject, type, dueDate, description, completed) ==
    [title |-> title, subject |-> subject, type |-> type,
     dueDate |-> dueDate, description |-> description,
     completed |-> completed]

EmptyPatch ==
    Patch(Undefined, Undefined, Undefined, Undefined, Undefined, Undefined)

Patches ==
    {EmptyPatch,
     [EmptyPatch EXCEPT !.completed = JsFalse],
     [EmptyPatch EXCEPT !.title = "Essay", !.dueDate = "2024-06-01"],
     [EmptyPatch EXCEPT !.description = Null],
     [EmptyPatch EXCEPT !.description = "", !.completed = "yes"]}

RECURSIVE SeqsUpTo(_, _)
SeqsUpTo(S, n) ==
    IF n = 0 THEN {<<>>}
    ELSE LET shorter == SeqsUpTo(S, n - 1)
         IN  shorter \cup {Append(q, x) : q \in shorter, x \in S}

\* req.body.assignments of a sync: an array of items, or something else.
SyncBodies ==
    {[isArray |-> TRUE, items |-> q] : q \in SeqsUpTo(Items, MaxItems)}
        \cup {[isArray |-> TRUE, items |-> <<a>>] : a \in {Flagged, NoTitle}}
        \cup {[isArray |-> FALSE, items |-> <<>>]}

-----------------------------------------------------------------------------
(* The schema and the prepared statements.                                 *)

\* assignments.id TEXT PRIMARY KEY: the key is the id alone.
PrimaryKey(row) == row.id

\* The NOT NULL columns of assignments; undefined binds as NULL.
NotNullViolated(row) ==
    \E v \in {row.id, row.user_id, row.title, row.subject, row.type,
              row.due_date} : v \in {Null, Undefined}

KeyTaken(t, row) == \E i \in 1..Len(t) : PrimaryKey(t[i]) = PrimaryKey(row)

\* WHERE user_id = ?
RowsOf(t, u) == LET Mine(r) == r.user_id = u IN SelectSeq(t, Mine)

\* memcmp order of the due_date texts of the model.
TextRank(d) ==
    CASE d = "" -> 0
      [] d = "2024-05-01" -> 1
      [] d = "2024-06-01" -> 2
      [] OTHER -> 3

\* ORDER BY due_date ASC; rows of equal due_date stay in rowid order.
RECURSIVE OrderByDueDate(_)
OrderByDueDate_Unordered(s) == s

OrderByDueDate(s) ==
    IF s = <<>> THEN <<>>
    ELSE LET sorted == OrderByDueDate(SubSeq(s, 1, Len(s) - 1))
             r == s[Len(s)]
             Before(x) == TextRank(x.due_date) <= TextRank(r.due_date)
             After(x) == TextRank(x.due_date) > TextRank(r.due_date)
         IN  SelectSeq(sorted, Before) \o <<r>> \o SelectSeq(sorted, After)

\* users.email TEXT UNIQUE NOT NULL: the upsert resolves a conflict on id
\* only, so an email another row holds, or none at all, makes it throw.
UpsertThrows(us, ident) ==
    \/ ident.email \in {Null, Undefined}
    \/ \E x \in us : x.id # ident.id /\ x.email = ident.email

UpsertUser_Dropped(us, ident) == us

\* statements.upsertUser
UpsertUser(us, ident) == {x \in us : x.id # ident.id} \cup {ident}

\* statements.getAssignments
GetAssignments(t, u) == OrderByDueDate(RowsOf(t, u))

GetAssignment_AnyOwner(t, id, u) ==
    LET Hit(r) == r.id = id IN SelectSeq(t, Hit)

\* statements.getAssignment: the rows with this id and owner (none or one).
GetAssignment(t, id, u) ==
    LET Hit(r) == r.id = id /\ r.user_id = u IN SelectSeq(t, Hit)

InsertAssignment_OrReplace(t, row) ==
    IF NotNullViolated(row)
    THEN [ok |-> FALSE, table |-> t]
    ELSE LET Other(r) == PrimaryKey(r) # PrimaryKey(row)
         IN  [ok |-> TRUE, table |-> Append(SelectSeq(t, Other), row)]

\* statements.insertAssignment: a plain INSERT, which a taken key or a NULL
\* in a NOT NULL column makes throw.
InsertAssignment(t, row) ==
    IF KeyTaken(t, row) \/ NotNullViolated(row)
    THEN [ok |-> FALSE, table |-> t]
    ELSE [ok |-> TRUE, table |-> Append(t, row)]

\* statements.updateAssignment
UpdateAssignment(t, vals, ts, id, u) ==
    [i \in 1..Len(t) |->
        IF t[i].id = id /\ t[i].user_id = u
        THEN [t[i] EXCEPT !.title = vals.title, !.subject = vals.subject,
                          !.type = vals.type, !.due_date = vals.dueDate,
                          !.description = vals.description,
                          !.completed = vals.completed, !.updated_at = ts]
        ELSE t[i]]

DeleteAssignment_AllOfUser(t, id, u) ==
    LET Keep(r) == r.user_id # u IN SelectSeq(t, Keep)

\* statements.deleteAssignment
DeleteAssignment(t, id, u) ==
    LET Keep(r) == ~(r.id = id /\ r.user_id = u) IN SelectSeq(t, Keep)

DeleteAllAssignments_Skipped(t, u) == t

\* statements.deleteAllAssignments
DeleteAllAssignments(t, u) ==
    LET Keep(r) == r.user_id # u IN SelectSeq(t, Keep)

BulkInsertAssignment_OrIgnore(t, row) ==
    IF NotNullViolated(row) THEN [ok |-> FALSE, table |-> t]
    ELSE IF \E i \in 1..Len(t) : t[i].id = row.id THEN [ok |-> TRUE, table |-> t]
    ELSE [ok |-> TRUE, table |-> Append(t, row)]

BulkInsertAssignment_Plain(t, row) ==
    IF KeyTaken(t, row) \/ NotNullViolated(row)
    THEN [ok |-> FALSE, table |-> t]
    ELSE [ok |-> TRUE, table |-> Append(t, row)]

\* statements.bulkInsertAssignment: INSERT OR REPLACE.  A NULL in a NOT NULL
\* column without a default aborts the statement; a taken key deletes the
\* row that holds it, whoever owns it, and the new row gets a fresh rowid.
BulkInsertAssignment(t, row) ==
    IF NotNullViolated(row)
    THEN [ok |-> FALSE, table |-> t]
    ELSE LET Other(r) == PrimaryKey(r) # PrimaryKey(row)
         IN  [ok |-> TRUE, table |-> Append(SelectSeq(t, Other), row)]

FormatAssignment_Raw(row) ==
    [id |-> row.id, title |-> row.title, subject |-> row.subject,
     type |-> row.type, dueDate |-> row.due_date,
     description |-> row.description,
     completed |-> IF row.completed = 1 THEN "1" ELSE "0",
     createdAt |-> row.created_at, updatedAt |-> row.updated_at]

\* formatAssignment, of the rows a get() or all() returned.
FormatAssignment(row) ==
    [id |-> row.id, title |-> row.title, subject |-> row.subject,
     type |-> row.type, dueDate |-> row.due_date,
     description |-> row.description,
     completed |-> IF row.completed = 1 THEN JsTrue ELSE JsFalse,
     createdAt |-> row.created_at, updatedAt |-> row.updated_at]

FormatAll(rows) == [i \in 1..Len(rows) |-> FormatAssignment(rows[i])]


-----------------------------------------------------------------------------
(* The handlers, as functions of the table, the caller and the request.    *)
(* Each gives the table it leaves and the response it sends.               *)

Response(status, message, rows) ==
    [status |-> status, message |-> message, rows |-> rows]

NoResponse == Response(0, "", <<>>)

Outcome(t, r) == [table |-> t, resp |-> r]

\* The row a POST /api/assignments binds; both timestamps take the default.
CreateRow(u, b, t) ==
    [id |-> OrElse(b.id, DateNowString(t)), user_id |-> u,
     title |-> b.title, subject |-> b.subject, type |-> b.type,
     due_date |-> b.dueDate, description |-> OrElse(b.description, Null),
     completed |-> IF Truthy(b.completed) THEN 1 ELSE 0,
     created_at |-> CurrentTimestamp(t), updated_at |-> CurrentTimestamp(t)]

CreateHandler_DueDateUnchecked(t, u, b, clock) ==
    IF ~Truthy(b.title) \/ ~Truthy(b.subject) \/ ~Truthy(b.type)
    THEN Outcome(t, Response(400, "Missing required fields", <<>>))
    ELSE LET row == CreateRow(u, b, clock)
             ins == InsertAssignment(t, row)
         IN  IF ~ins.ok
             THEN Outcome(t, Response(500, "Failed to create assignment", <<>>))
             ELSE Outcome(ins.table,
                          Response(201, "",
                                   FormatAll(GetAssignment(ins.table, row.id, u))))

\* POST /api/assignments
CreateHandler(t, u, b, clock) ==
    IF ~Truthy(b.title) \/ ~Truthy(b.subject) \/ ~Truthy(b.type)
           \/ ~Truthy(b.dueDate)
    THEN Outcome(t, Response(400, "Missing required fields", <<>>))
    ELSE LET row == CreateRow(u, b, clock)
             ins == InsertAssignment(t, row)
         IN  IF ~ins.ok
             THEN Outcome(t, Response(500, "Failed to create assignment", <<>>))
             ELSE Outcome(ins.table,
                          Response(201, "",
                                   FormatAll(GetAssignment(ins.table, row.id, u))))

MergeFields_AlwaysCoerced(b, existing) ==
    [title |-> OrElse(b.title, existing.title),
     subject |-> OrElse(b.subject, existing.subject),
     type |-> OrElse(b.type, existing.type),
     dueDate |-> OrElse(b.dueDate, existing.due_date),
     description |-> IF b.description # Undefined THEN b.description
                     ELSE existing.description,
     completed |-> IF Truthy(b.completed) THEN 1 ELSE 0]

\* The values a PUT binds: a field of the body, or the stored one.
MergeFields(b, existing) ==
    [title |-> OrElse(b.title, existing.title),
     subject |-> OrElse(b.subject, existing.subject),
     type |-> OrElse(b.type, existing.type),
     dueDate |-> OrElse(b.dueDate, existing.due_date),
     description |-> IF b.description # Undefined THEN b.description
                     ELSE existing.description,
     completed |-> IF b.completed # Undefined
                   THEN (IF Truthy(b.completed) THEN 1 ELSE 0)
                   ELSE existing.completed]

\* PUT /api/assignments/:id
UpdateHandler(t, u, id, b, clock) ==
    LET existing == GetAssignment(t, id, u)
    IN  IF existing = <<>>
        THEN Outcome(t, Response(404, "Assignment not found", <<>>))
        ELSE LET t2 == UpdateAssignment(t, MergeFields(b, existing[1]),
                                        CurrentTimestamp(clock), id, u)
             IN  Outcome(t2, Response(200, "", FormatAll(GetAssignment(t2, id, u))))

\* DELETE /api/assignments/:id
DeleteHandler(t, u, id) ==
    IF GetAssignment(t, id, u) = <<>>
    THEN Outcome(t, Response(404, "Assignment not found", <<>>))
    ELSE Outcome(DeleteAssignment(t, id, u), Response(200, "success", <<>>))

\* GET /api/assignments
ListHandler(t, u) ==
    Outcome(t, Response(200, "", FormatAll(GetAssignments(t, u))))

\* The row one turn of the sync loop binds; updated_at takes the default.
SyncRow(u, a, t, suffix) ==
    [id |-> OrElse(a.id, DateNowString(t) \o suffix), user_id |-> u,
     title |-> a.title, subject |-> a.subject, type |-> a.type,
     due_date |-> a.dueDate, description |-> OrElse(a.description, Null),
     completed |-> IF Truthy(a.completed) THEN 1 ELSE 0,
     created_at |-> OrElse(a.createdAt, IsoString(t)),
     updated_at |-> CurrentTimestamp(t)]

Rollback_Missing(t, image) == t

\* db.transaction: what the wrapper leaves when the function throws.
Rollback(t, image) == image

NoTx == [open |-> FALSE, image |-> <<>>]


-----------------------------------------------------------------------------
(* The initial states: homework.db as earlier runs left it.                *)

\* A row an earlier POST /api/assignments of user u stored, at tick 0.
Stored(u, b) == CreateRow(u, b, 0)

SeedTables ==
    {<<>>,
     <<Stored("A", Quiz("a"))>>,
     <<Stored("B", Essay("a"))>>,
     <<Stored("A", Quiz("a")), Stored("A", Blank("b"))>>}

Owners(t) == {t[i].user_id : i \in 1..Len(t)}

NoUser == "-"
NoRequest == [user |-> NoUser, email |-> Null, route |-> "none"]

\* req.user, as verifyGoogleToken sets it from the token's payload.
ReqUser(r) == [Identity(r.user) EXCEPT !.email = r.email]
NoBody == [id |-> Undefined, fields |-> EmptyPatch, isArray |-> FALSE,
           items |-> <<>>]

Init ==
    /\ table \in SeedTables
    /\ users = {Identity(u) : u \in Owners(table)}
    /\ now = 1
    /\ tx = NoTx
    /\ pc = [s \in Slots |-> "idle"]
    /\ req = [s \in Slots |-> NoRequest]
    /\ body = [s \in Slots |-> NoBody]
    /\ k = [s \in Slots |-> 0]
    /\ genIds = [s \in Slots |-> <<>>]
    /\ resp = [s \in Slots |-> NoResponse]
    /\ runs = 0
    /\ ord = [s \in Slots |-> 0]
    /\ pre = table
    /\ overlap = [s \in Slots |-> {}]

-----------------------------------------------------------------------------
(* Scheduling.                                                             *)

MayRun_Interleaved(s) == pc[s] = "verify"

\* A continuation of the await in verifyGoogleToken runs when the call
\* stack is empty: no handler is between two statements of its own.
MayRun(s) == pc[s] = "verify" /\ \A t \in Slots : pc[t] # "sync"

\* The clock advances, for as long as a request is to be answered.
Tick ==
    /\ now < MaxClock
    /\ \E s \in Slots : pc[s] # "done"
    /\ now' = now + 1
    /\ UNCHANGED <<table, users, tx, pc, req, body, k, genIds, resp, runs, ord, pre, overlap>>

\* The requests are named in the order they arrive in.
InTurn(s) == s = "r1" \/ pc["r1"] # "idle"

\* A request with a bearer token arrives and awaits its verification.
Arrive(s, payload, route) ==
    /\ pc[s] = "idle"
    /\ InTurn(s)
    /\ pc' = [pc EXCEPT ![s] = "verify"]
    /\ req' = [req EXCEPT ![s] = [user |-> payload.id, email |-> payload.email,
                                  route |-> route]]
    /\ UNCHANGED <<table, users, now, tx, body, k, genIds, resp, runs, ord,
                   pre, overlap>>

\* A request without a bearer token is answered at once.
NoToken(s, route) ==
    /\ pc[s] = "idle"
    /\ InTurn(s)
    /\ pc' = [pc EXCEPT ![s] = "done"]
    /\ req' = [req EXCEPT ![s] = [user |-> NoUser, email |-> Null,
                                  route |-> route]]
    /\ resp' = [resp EXCEPT ![s] = Response(401, "No token provided", <<>>)]
    /\ UNCHANGED <<table, users, now, tx, body, k, genIds, runs, ord, pre,
                   overlap>>

InvalidToken_Upserts(s) ==
    /\ MayRun(s)
    /\ users' = UpsertUser(users, ReqUser(req[s]))
    /\ pc' = [pc EXCEPT ![s] = "done"]
    /\ resp' = [resp EXCEPT ![s] = Response(401, "Invalid token", <<>>)]
    /\ UNCHANGED <<table, now, tx, req, body, k, genIds, runs, ord, pre, overlap>>

\* verifyIdToken rejects the token.
InvalidToken(s) ==
    /\ MayRun(s)
    /\ pc' = [pc EXCEPT ![s] = "done"]
    /\ resp' = [resp EXCEPT ![s] = Response(401, "Invalid token", <<>>)]
    /\ UNCHANGED <<table, users, now, tx, req, body, k, genIds, runs, ord, pre, overlap>>

\* The token verified, but the upsert throws inside the try: the catch
\* answers as for a token that did not verify, and next() is not called.
UpsertFails(s) ==
    /\ MayRun(s)
    /\ UpsertThrows(users, ReqUser(req[s]))
    /\ pc' = [pc EXCEPT ![s] = "done"]
    /\ resp' = [resp EXCEPT ![s] = Response(401, "Invalid token", <<>>)]
    /\ UNCHANGED <<table, users, now, tx, req, body, k, genIds, runs, ord, pre, overlap>>

\* The token verified: the user row is upserted and the route's handler
\* starts, in the same turn of the event loop.
Enter(s, route) ==
    /\ MayRun(s)
    /\ req[s].route = route
    /\ ~UpsertThrows(users, ReqUser(req[s]))
    /\ users' = UpsertUser(users, ReqUser(req[s]))
    /\ runs' = runs + 1
    /\ ord' = [ord EXCEPT ![s] = runs + 1]
    /\ pre' = table
    /\ overlap' = [overlap EXCEPT ![s] = {t \in Slots \ {s} : pc[t] = "verify"}]

\* Of a request answered before the handler of s started, the history keeps
\* the outline: caller, route, target id, and the response's status.
Outline(b) == [NoBody EXCEPT !.id = b.id]
Answered(s, t) == t # s /\ pc[t] = "done"
KeepBody(s, b) ==
    [t \in Slots |-> IF t = s THEN b
                     ELSE IF Answered(s, t) THEN Outline(body[t]) ELSE body[t]]
KeepResp(s, r) ==
    [t \in Slots |-> IF t = s THEN r
                     ELSE IF Answered(s, t) THEN [resp[t] EXCEPT !.rows = <<>>]
                     ELSE resp[t]]
KeepIds(s) ==
    [t \in Slots |-> IF t = s \/ Answered(s, t) THEN <<>> ELSE genIds[t]]

\* A handler that ends in the turn it started in.
Finish(s, b, out) ==
    /\ body' = KeepBody(s, b)
    /\ table' = out.table
    /\ resp' = KeepResp(s, out.resp)
    /\ genIds' = KeepIds(s)
    /\ pc' = [pc EXCEPT ![s] = "done"]
    /\ UNCHANGED <<now, tx, req, k>>

List(s) ==
    /\ Enter(s, "list")
    /\ Finish(s, NoBody, ListHandler(table, req[s].user))

Create(s, item) ==
    /\ Enter(s, "create")
    /\ Finish(s, [NoBody EXCEPT !.fields = item],
              CreateHandler(table, req[s].user, item, now))

Update(s, id, patch) ==
    /\ Enter(s, "update")
    /\ Finish(s, [NoBody EXCEPT !.id = id, !.fields = patch],
              UpdateHandler(table, req[s].user, id, patch, now))

Delete(s, id) ==
    /\ Enter(s, "delete")
    /\ Finish(s, [NoBody EXCEPT !.id = id],
              DeleteHandler(table, req[s].user, id))

SyncBegin_ArrayUnchecked(s, b) ==
    /\ Enter(s, "sync")
    /\ body' = KeepBody(s, [NoBody EXCEPT !.isArray = b.isArray,
                                          !.items = b.items])
    /\ genIds' = KeepIds(s)
    /\ tx' = [open |-> TRUE, image |-> table]
    /\ table' = DeleteAllAssignments(table, req[s].user)
    /\ k' = [k EXCEPT ![s] = 1]
    /\ pc' = [pc EXCEPT ![s] = "sync"]
    /\ resp' = KeepResp(s, NoResponse)
    /\ UNCHANGED <<now, req>>

\* POST /api/assignments/sync up to the first statement of the transaction:
\* the array check, BEGIN, and the delete of the caller's rows.
SyncBegin(s, b) ==
    /\ Enter(s, "sync")
    /\ body' = KeepBody(s, [NoBody EXCEPT !.isArray = b.isArray,
                                          !.items = b.items])
    /\ genIds' = KeepIds(s)
    /\ IF ~b.isArray
       THEN /\ resp' = KeepResp(s, Response(400, "Assignments must be an array",
                                            <<>>))
            /\ pc' = [pc EXCEPT ![s] = "done"]
            /\ UNCHANGED <<table, tx, k>>
       ELSE /\ tx' = [open |-> TRUE, image |-> table]
            /\ table' = DeleteAllAssignments(table, req[s].user)
            /\ k' = [k EXCEPT ![s] = 1]
            /\ pc' = [pc EXCEPT ![s] = "sync"]
            /\ resp' = KeepResp(s, NoResponse)
    /\ UNCHANGED <<now, req>>

\* What the sync loop reads of a record that a list returned: all of it
\* but updatedAt.
AsItem(rec) ==
    Item(rec.id, rec.title, rec.subject, rec.type, rec.dueDate,
         rec.description, rec.completed, rec.createdAt)

\* The records GET /api/assignments returns to u, as a sync payload.
Listed(t, u) ==
    LET rows == ListHandler(t, u).resp.rows
    IN  [i \in 1..Len(rows) |-> AsItem(rows[i])]

\* A sync that sends back what a list just returned to the caller.
Resync(s) ==
    /\ Listed(table, req[s].user) # <<>>
    /\ SyncBegin(s, [isArray |-> TRUE, items |-> Listed(table, req[s].user)])

\* One turn of the loop: the insert of item k.  If it throws, the
\* transaction rolls back and the route's catch answers 500.
SyncInsert(s, suffix) ==
    /\ pc[s] = "sync"
    /\ k[s] <= Len(body[s].items)
    /\ LET row == SyncRow(req[s].user, body[s].items[k[s]], now, suffix)
           ins == BulkInsertAssignment(table, row)
       IN  IF ins.ok
           THEN /\ table' = ins.table
                /\ k' = [k EXCEPT ![s] = k[s] + 1]
                /\ genIds' = [genIds EXCEPT ![s] = Append(genIds[s], row.id)]
                /\ UNCHANGED <<tx, pc, resp>>
           ELSE /\ table' = Rollback(table, tx.image)
                /\ tx' = NoTx
                /\ resp' = [resp EXCEPT ![s] =
                               Response(500, "Failed to sync assignments", <<>>)]
                /\ pc' = [pc EXCEPT ![s] = "done"]
                /\ UNCHANGED <<k, genIds>>
    /\ UNCHANGED <<users, now, req, body, runs, ord, pre, overlap>>

\* The loop is over: COMMIT, then the read the response is made of.
SyncCommit(s) ==
    /\ pc[s] = "sync"
    /\ k[s] > Len(body[s].items)
    /\ tx' = NoTx
    /\ resp' = [resp EXCEPT ![s] =
                   Response(200, "", FormatAll(GetAssignments(table, req[s].user)))]
    /\ pc' = [pc EXCEPT ![s] = "done"]
    /\ UNCHANGED <<table, users, now, req, body, k, genIds, runs,
                   ord, pre, overlap>>

Next ==
    \/ Tick
    \/ \E s \in Slots, payload \in TokenPayloads, route \in Routes :
           Arrive(s, payload, route)
    \/ \E s \in Slots, route \in Routes : NoToken(s, route)
    \/ \E s \in Slots : InvalidToken(s)
    \/ \E s \in Slots : UpsertFails(s)
    \/ \E s \in Slots : List(s)
    \/ \E s \in Slots, item \in CreateBodies : Create(s, item)
    \/ \E s \in Slots, id \in CallerIds, patch \in Patches : Update(s, id, patch)
    \/ \E s \in Slots, id \in CallerIds : Delete(s, id)
    \/ \E s \in Slots, b \in SyncBodies : SyncBegin(s, b)
    \/ \E s \in Slots : Resync(s)
    \/ \E s \in Slots, suffix \in RandomSuffixes : SyncInsert(s, suffix)
    \/ \E s \in Slots : SyncCommit(s)

Spec == Init /\ [][Next]_vars


-----------------------------------------------------------------------------
(* Vocabulary of the properties.                                           *)

\* The handler of s is the latest to have started, and has answered.
Answers(s, route) ==
    /\ pc[s] = "done"
    /\ ord[s] = runs
    /\ ord[s] > 0
    /\ req[s].route = route

Holds(t, u, id) == \E i \in 1..Len(t) : t[i].id = id /\ t[i].user_id = u

HeldByAnother(t, u, id) ==
    \E i \in 1..Len(t) : t[i].id = id /\ t[i].user_id # u

Omitted(v) == v \in {Undefined, Null, ""}

\* A payload item carries the four required fields.
WellFormed(a) ==
    \A v \in {a.title, a.subject, a.type, a.dueDate} : v \notin {Undefined, Null}

\* A create body carries the four required fields, none of them empty.
Valid(a) == \A v \in {a.title, a.subject, a.type, a.dueDate} : ~Omitted(v)

\* The last position of the payload that was bound with this id.
LastWith(ids, id) ==
    CHOOSE j \in 1..Len(ids) :
        ids[j] = id /\ \A j2 \in (j + 1)..Len(ids) : ids[j2] # id

\* Row r stores item a: a missing or empty description as NULL, completed
\* as 1 for a truthy value and 0 otherwise.
Stores(r, a) ==
    /\ r.title = a.title
    /\ r.subject = a.subject
    /\ r.type = a.type
    /\ r.due_date = a.dueDate
    /\ r.description = (IF Omitted(a.description) THEN Null ELSE a.description)
    /\ r.completed = (IF a.completed \in {Undefined, Null, JsFalse} THEN 0 ELSE 1)

\* The rows of u are the payload `items` bound with `ids`: one row per
\* distinct id, storing the last item bound with it.
IsReplacement(rows, items, ids) ==
    /\ Len(ids) = Len(items)
    /\ \A j \in 1..Len(items) : ~Omitted(items[j].id) => ids[j] = items[j].id
    /\ {rows[i].id : i \in 1..Len(rows)} = {ids[j] : j \in 1..Len(ids)}
    /\ Len(rows) = Cardinality({ids[j] : j \in 1..Len(ids)})
    /\ \A i \in 1..Len(rows) : Stores(rows[i], items[LastWith(ids, rows[i].id)])

-----------------------------------------------------------------------------
(* C1.  Per-user isolation: whatever a user's request was (list, create,   *)
(* update, delete or sync, with any ids in it), once it is answered the    *)
(* rows of every other user are the rows they were when it started.        *)
(* The code does not keep this: INSERT OR REPLACE on the table-wide        *)
(* primary key deletes another user's row that holds a synced id.          *)
C1_Isolation ==
    \A s \in Slots : \A route \in Routes :
        Answers(s, route) =>
            \A u \in Users \ {req[s].user} : RowsOf(table, u) = RowsOf(pre, u)

(* C2, as stated.  After a successful sync of n items the caller holds     *)
(* exactly n rows, one per payload item, and the response lists them.      *)
C2_SyncHoldsOneRowPerItem ==
    \A s \in Slots :
        (Answers(s, "sync") /\ resp[s].status = 200) =>
            LET rows == RowsOf(table, req[s].user)
                items == body[s].items
            IN  /\ Len(rows) = Len(items)
                /\ \A j \in 1..Len(items) :
                       \E i \in 1..Len(rows) : Stores(rows[i], items[j])
                /\ resp[s].rows = FormatAll(OrderByDueDate(rows))

(* C2, amended.  After a successful sync the caller holds exactly one row  *)
(* per distinct id of the payload (an item's own id, or the one generated  *)
(* for it), storing the last item with that id; no row it held before      *)
(* remains under another id; the response is the resulting list.           *)
C2_SyncReplaces ==
    \A s \in Slots :
        (Answers(s, "sync") /\ resp[s].status = 200) =>
            LET rows == RowsOf(table, req[s].user)
            IN  /\ IsReplacement(rows, body[s].items, genIds[s])
                /\ resp[s].rows = FormatAll(OrderByDueDate(rows))

\* A sync of two items with one id, by a caller who held two rows.
C2_Witness ==
    \E s \in Slots :
        /\ Answers(s, "sync")
        /\ resp[s].status = 200
        /\ Len(body[s].items) = 2
        /\ Len(RowsOf(pre, req[s].user)) = 2
        /\ Len(RowsOf(table, req[s].user)) = 1
        /\ resp[s].rows[1].title = body[s].items[2].title
        /\ body[s].items[1].title # body[s].items[2].title

(* C3.  Sync is all-or-nothing: a payload with an item that cannot be      *)
(* inserted, at any position, is answered with an error, and the table is  *)
(* the table the sync found: nothing deleted, nothing inserted.            *)
C3_SyncAtomic ==
    \A s \in Slots :
        Answers(s, "sync") =>
            /\ (\E j \in 1..Len(body[s].items) : ~WellFormed(body[s].items[j]))
                   => resp[s].status = 500
            /\ resp[s].status = 500 => (table = pre /\ ~tx.open)

\* A sync that failed on its second item, after the delete and one insert.
C3_Witness ==
    \E s \in Slots :
        /\ Answers(s, "sync")
        /\ resp[s].status = 500
        /\ Len(body[s].items) = 2
        /\ WellFormed(body[s].items[1])
        /\ ~WellFormed(body[s].items[2])
        /\ RowsOf(pre, req[s].user) # <<>>
        /\ table = pre


(* C4.  No intermediate state of a sync is observable: a handler, of the   *)
(* syncing user or of any other, starts (and so reads the table) only      *)
(* when no transaction is open; what it finds is the table as the last     *)
(* commit or rollback left it, never the table between the delete and the  *)
(* last insert.                                                            *)
C4_NoIntermediateState ==
    [][\A s \in Slots : ord'[s] # ord[s] => ~tx.open]_vars

\* A sync has deleted its caller's rows and not yet inserted its payload,
\* while another request of the same caller is in flight.
C4_Witness ==
    \E s \in Slots, t \in Slots :
        /\ pc[s] = "sync"
        /\ pc[t] = "verify"
        /\ req[t].user = req[s].user
        /\ tx.open
        /\ k[s] <= Len(body[s].items)
        /\ RowsOf(tx.image, req[s].user) # <<>>
        /\ RowsOf(table, req[s].user) = <<>>

(* C5.  Two concurrent syncs of one user are last-write-wins: once both    *)
(* have succeeded, the user's rows are the payload of the one that         *)
(* committed last, and none of them comes from the other's payload.        *)
C5_LastWriteWins ==
    \A s \in Slots, t \in Slots :
        (/\ Answers(t, "sync") /\ resp[t].status = 200
         /\ pc[s] = "done" /\ req[s].route = "sync" /\ resp[s].status = 200
         /\ req[s].user = req[t].user
         /\ ord[s] + 1 = ord[t]
         /\ t \in overlap[s])
        => /\ IsReplacement(RowsOf(table, req[t].user), body[t].items, genIds[t])
           /\ \A i \in 1..Len(table) :
                  table[i].user_id = req[t].user =>
                      \E j \in 1..Len(body[t].items) :
                          Stores(table[i], body[t].items[j])

\* Both syncs were in flight together; the first left rows that the
\* second's payload does not have, and they are gone.
C5_Witness ==
    \E s \in Slots, t \in Slots :
        /\ Answers(t, "sync") /\ resp[t].status = 200
        /\ pc[s] = "done" /\ req[s].route = "sync" /\ resp[s].status = 200
        /\ req[s].user = req[t].user
        /\ ord[s] + 1 = ord[t]
        /\ t \in overlap[s]
        /\ body[t].items # <<>>
        /\ \E i \in 1..Len(pre) :
               /\ pre[i].user_id = req[t].user
               /\ ~Holds(table, req[t].user, pre[i].id)

(* C6.  Update is a partial merge: after a successful update every field   *)
(* among title, subject, type, dueDate, description, completed that the    *)
(* request does not carry keeps its value, every other row is unchanged,   *)
(* and an update with an empty body returns the record with all six as     *)
(* they were.                                                              *)
C6_UpdatePartialMerge ==
    \A s \in Slots :
        (Answers(s, "update") /\ resp[s].status = 200) =>
            LET b == body[s].fields
                Target(r) == r.id = body[s].id /\ r.user_id = req[s].user
            IN  /\ Len(table) = Len(pre)
                /\ \A i \in 1..Len(pre) :
                      IF Target(pre[i])
                      THEN /\ Target(table[i])
                           /\ b.title = Undefined => table[i].title = pre[i].title
                           /\ b.subject = Undefined => table[i].subject = pre[i].subject
                           /\ b.type = Undefined => table[i].type = pre[i].type
                           /\ b.dueDate = Undefined => table[i].due_date = pre[i].due_date
                           /\ b.description = Undefined
                                  => table[i].description = pre[i].description
                           /\ b.completed = Undefined
                                  => table[i].completed = pre[i].completed
                           /\ table[i].created_at = pre[i].created_at
                           /\ resp[s].rows = <<FormatAssignment(table[i])>>
                           /\ b = EmptyPatch =>
                                  /\ resp[s].rows[1].title = pre[i].title
                                  /\ resp[s].rows[1].subject = pre[i].subject
                                  /\ resp[s].rows[1].type = pre[i].type
                                  /\ resp[s].rows[1].dueDate = pre[i].due_date
                                  /\ resp[s].rows[1].description = pre[i].description
                                  /\ resp[s].rows[1].completed =
                                         (IF pre[i].completed = 1 THEN JsTrue
                                          ELSE JsFalse)
                      ELSE table[i] = pre[i]

\* An update that carried only `completed` changed it and nothing else, on
\* a table with another row.
C6_Witness ==
    \E s \in Slots :
        /\ Answers(s, "update")
        /\ resp[s].status = 200
        /\ body[s].fields = [EmptyPatch EXCEPT !.completed = JsFalse]
        /\ Len(pre) = 2
        /\ \E i \in 1..Len(pre) :
               /\ pre[i].id = body[s].id
               /\ pre[i].completed = 1
               /\ table[i].completed = 0
               /\ table[i].title = pre[i].title

(* C7.  Update and delete of an id the caller does not hold answer         *)
(* NotFound and change no row, and the answer is the same whether another  *)
(* user holds the id or nobody does.                                       *)
C7_NotFoundIndistinguishable ==
    \A s \in Slots : \A route \in {"update", "delete"} :
        (Answers(s, route) /\ ~Holds(pre, req[s].user, body[s].id)) =>
            /\ resp[s] = Response(404, "Assignment not found", <<>>)
            /\ table = pre

\* The id belongs to another user.
C7_Witness ==
    \E s \in Slots : \E route \in {"update", "delete"} :
        /\ Answers(s, route)
        /\ ~Holds(pre, req[s].user, body[s].id)
        /\ HeldByAnother(pre, req[s].user, body[s].id)
        /\ resp[s].status = 404

(* C8.  Delete of an id the caller holds removes that row and no other     *)
(* and answers success; the same caller's next delete of that id, with no  *)
(* handler in between, answers NotFound and changes nothing.               *)
C8_DeleteOnce ==
    /\ \A s \in Slots :
          (Answers(s, "delete") /\ Holds(pre, req[s].user, body[s].id)) =>
              LET Rest(r) == ~(r.id = body[s].id /\ r.user_id = req[s].user)
              IN  /\ resp[s] = Response(200, "success", <<>>)
                  /\ table = SelectSeq(pre, Rest)
                  /\ Len(table) = Len(pre) - 1
    /\ \A s \in Slots, t \in Slots :
          (/\ Answers(t, "delete")
           /\ pc[s] = "done" /\ req[s].route = "delete" /\ resp[s].status = 200
           /\ req[s].user = req[t].user
           /\ body[s].id = body[t].id
           /\ ord[s] + 1 = ord[t])
          => (resp[t].status = 404 /\ table = pre)

\* The second delete, after a first that removed one of two rows.
C8_Witness ==
    \E s \in Slots, t \in Slots :
        /\ Answers(t, "delete")
        /\ pc[s] = "done" /\ req[s].route = "delete" /\ resp[s].status = 200
        /\ req[s].user = req[t].user
        /\ body[s].id = body[t].id
        /\ ord[s] + 1 = ord[t]
        /\ resp[t].status = 404
        /\ Len(table) = 1

(* C9.  A create with valid fields and no id gets an id that is unique for *)
(* the caller: it succeeds, adds exactly one row, and the row's id is not  *)
(* one the caller already held.  The code takes the millisecond clock as   *)
(* the id, so a second such create in the same millisecond fails.          *)
C9_GeneratedIdUnique ==
    \A s \in Slots :
        (/\ Answers(s, "create")
         /\ Valid(body[s].fields)
         /\ Omitted(body[s].fields.id))
        => /\ resp[s].status = 201
           /\ Len(table) = Len(pre) + 1
           /\ ~Holds(pre, req[s].user, table[Len(table)].id)
           /\ table[Len(table)].user_id = req[s].user

(* C10.  Ids are unique within a user's scope only: a create with valid    *)
(* fields and an id the caller does not hold succeeds and adds the         *)
(* caller's row even when another user holds that id, and both hold a row  *)
(* with it afterwards.  The code's primary key is the id alone, so the     *)
(* insert throws.                                                          *)
C10_IdScopedPerUser ==
    \A s \in Slots :
        (/\ Answers(s, "create")
         /\ Valid(body[s].fields)
         /\ ~Omitted(body[s].fields.id)
         /\ ~Holds(pre, req[s].user, body[s].fields.id)
         /\ HeldByAnother(pre, req[s].user, body[s].fields.id))
        => /\ resp[s].status = 201
           /\ Holds(table, req[s].user, body[s].fields.id)
           /\ HeldByAnother(table, req[s].user, body[s].fields.id)

(* C11.  A create whose title, subject, type or dueDate is missing or      *)
(* empty is answered ValidationError (400, "Missing required fields"),     *)
(* adds no row and changes none: the table is the table it found.          *)
C11_CreateValidates ==
    \A s \in Slots :
        (Answers(s, "create") /\ ~Valid(body[s].fields)) =>
            /\ resp[s] = Response(400, "Missing required fields", <<>>)
            /\ table = pre

\* A create with an empty dueDate and an id nobody holds, on a table that
\* has rows, was refused.
C11_Witness ==
    \E s \in Slots :
        /\ Answers(s, "create")
        /\ body[s].fields.dueDate = ""
        /\ Truthy(body[s].fields.title)
        /\ ~KeyTaken(pre, [id |-> body[s].fields.id])
        /\ pre # <<>>
        /\ resp[s].status = 400
        /\ table = pre

(* C12.  Upsert-before-use: in every reachable state each assignment row's *)
(* user_id is the id of a user row; a handler starts only with its         *)
(* caller's user row in the table, as the token's payload gives it; and    *)
(* no step removes a user row.                                             *)
C12_UpsertBeforeUse ==
    /\ [](\A i \in 1..Len(table) : \E x \in users : x.id = table[i].user_id)
    /\ [][/\ \A s \in Slots :
               ord'[s] # ord[s] => ReqUser(req[s]) \in users'
           /\ \A x \in users : \E y \in users' : y.id = x.id]_vars

\* A first request of B, with a token that carries a new address, on a
\* database without a user row for B: the row is there, with the address,
\* and B holds the assignment the request created.
C12_Witness ==
    \E s \in Slots :
        /\ Answers(s, "create")
        /\ resp[s].status = 201
        /\ pre = <<>>
        /\ req[s].user = "B"
        /\ users = {Moved}
        /\ Len(table) = 1
        /\ table[1].user_id = "B"

(* C13.  List answers with all and only the caller's assignments, each     *)
(* formatted once, in ascending order of dueDate, and changes no row.      *)
(* This holds of a list issued right after a sync as of any other: it      *)
(* returns the rows the sync left, ordered by dueDate.                     *)
C13_ListReturnsOwn ==
    \A s \in Slots :
        Answers(s, "list") =>
            LET rows == resp[s].rows
                mine == {i \in 1..Len(table) : table[i].user_id = req[s].user}
            IN  /\ resp[s].status = 200
                /\ table = pre
                /\ Len(rows) = Cardinality(mine)
                /\ \A i \in mine :
                       \E j \in 1..Len(rows) : rows[j] = FormatAssignment(table[i])
                /\ \A j \in 1..Len(rows) :
                       \E i \in mine : rows[j] = FormatAssignment(table[i])
                /\ \A j \in 1..(Len(rows) - 1) :
                       TextRank(rows[j].dueDate) <= TextRank(rows[j + 1].dueDate)

\* A list right after the caller's sync of two items, the later due first:
\* the answer has the two, the earlier due first.
C13_Witness ==
    \E s \in Slots, t \in Slots :
        /\ Answers(t, "list")
        /\ pc[s] = "done" /\ req[s].route = "sync" /\ resp[s].status = 200
        /\ req[s].user = req[t].user
        /\ ord[s] + 1 = ord[t]
        /\ Len(resp[t].rows) = 2
        /\ Len(table) = 2
        /\ resp[t].rows[1].id = table[2].id
        /\ resp[t].rows[2].id = table[1].id
        /\ resp[t].rows[1].dueDate = "2024-05-01"
        /\ resp[t].rows[2].dueDate = "2024-06-01"

(* C14.  completed is a boolean at the interface: every stored row's       *)
(* completed is 0 or 1, whatever value the create, update or sync that     *)
(* wrote it received; every record of a response carries true or false;    *)
(* and a create that omitted it returns false.                             *)
C14_CompletedIsBoolean ==
    /\ \A i \in 1..Len(table) : table[i].completed \in {0, 1}
    /\ \A s \in Slots : \A j \in 1..Len(resp[s].rows) :
           resp[s].rows[j].completed \in {JsTrue, JsFalse}
    /\ \A s \in Slots :
           (/\ Answers(s, "create") /\ resp[s].status = 201
            /\ body[s].fields.completed = Undefined)
           => resp[s].rows[1].completed = JsFalse

\* An update that carried completed as "yes", of a row stored with 0: the
\* row has 1 and the response has true.
C14_Witness ==
    \E s \in Slots :
        /\ Answers(s, "update")
        /\ resp[s].status = 200
        /\ body[s].fields.completed = "yes"
        /\ \E i \in 1..Len(pre) :
               /\ pre[i].id = body[s].id
               /\ pre[i].completed = 0
               /\ table[i].completed = 1
        /\ resp[s].rows[1].completed = JsTrue

(* C15.  A sync whose payload is not a list is answered ValidationError    *)
(* (400, "Assignments must be an array") and the table is the table it     *)
(* found; no transaction is begun for it, so the delete never runs.        *)
C15_SyncRejectsNonList ==
    /\ \A s \in Slots :
           (Answers(s, "sync") /\ ~body[s].isArray) =>
               /\ resp[s] = Response(400, "Assignments must be an array", <<>>)
               /\ table = pre
               /\ ~tx.open
    /\ \A s \in Slots : pc[s] = "sync" => body[s].isArray

\* The caller held rows, and holds them still.
C15_Witness ==
    \E s \in Slots :
        /\ Answers(s, "sync")
        /\ ~body[s].isArray
        /\ resp[s].status = 400
        /\ Len(RowsOf(pre, req[s].user)) = 2
        /\ RowsOf(table, req[s].user) = RowsOf(pre, req[s].user)

(* C16.  Every stored assignment has a title, a subject, a type and a      *)
(* dueDate, none of them empty, whichever of create, update or sync wrote  *)
(* the row.  The code does not keep this: sync binds the four as the       *)
(* payload gives them, and NOT NULL lets the empty string through.         *)
C16_RequiredFieldsStored ==
    \A i \in 1..Len(table) :
        \A v \in {table[i].title, table[i].subject, table[i].type,
                  table[i].due_date} : ~Omitted(v)

(* C17.  A sync payload with the same id in several items is resolved      *)
(* last-write-wins within the batch: if every item of it can be inserted,  *)
(* the sync succeeds and the caller ends with exactly one row of that id,  *)
(* which stores the last item of the list that has the id.                 *)
C17_DuplicateIdLastWins ==
    \A s \in Slots :
        (/\ Answers(s, "sync")
         /\ \A j \in 1..Len(body[s].items) : WellFormed(body[s].items[j]))
        => LET items == body[s].items
               ids == [j \in 1..Len(items) |-> items[j].id]
               Mine(id) == {n \in 1..Len(table) :
                               table[n].user_id = req[s].user /\ table[n].id = id}
           IN  \A i \in 1..Len(items), j \in 1..Len(items) :
                   (i < j /\ ~Omitted(ids[i]) /\ ids[i] = ids[j]) =>
                       /\ resp[s].status = 200
                       /\ Cardinality(Mine(ids[i])) = 1
                       /\ \A n \in Mine(ids[i]) :
                              Stores(table[n], items[LastWith(ids, ids[i])])

\* A sync of two items with one id and different fields, by a caller who
\* held nothing: one row, with the second item's fields.
C17_Witness ==
    \E s \in Slots :
        /\ Answers(s, "sync")
        /\ resp[s].status = 200
        /\ Len(body[s].items) = 2
        /\ body[s].items[1].id = body[s].items[2].id
        /\ body[s].items[1].title # body[s].items[2].title
        /\ RowsOf(pre, req[s].user) = <<>>
        /\ Len(RowsOf(table, req[s].user)) = 1
        /\ RowsOf(table, req[s].user)[1].id = body[s].items[2].id
        /\ RowsOf(table, req[s].user)[1].title = body[s].items[2].title

(* C18.  Resync round trip: a sync whose payload is the records the        *)
(* caller's list returns succeeds and leaves the caller with the same ids  *)
(* and, for each id, the same title, subject, type, dueDate, description,  *)
(* completed and createdAt; only updatedAt may differ.  The code does not  *)
(* keep this: a description stored as the empty string comes back as null. *)
C18_ResyncRoundTrip ==
    \A s \in Slots :
        (/\ Answers(s, "sync")
         /\ body[s].isArray
         /\ body[s].items = Listed(pre, req[s].user))
        => LET before == RowsOf(pre, req[s].user)
               after == RowsOf(table, req[s].user)
           IN  /\ resp[s].status = 200
               /\ {before[i].id : i \in 1..Len(before)}
                      = {after[j].id : j \in 1..Len(after)}
               /\ Len(before) = Len(after)
               /\ \A i \in 1..Len(before), j \in 1..Len(after) :
                      before[i].id = after[j].id =>
                          /\ after[j].title = before[i].title
                          /\ after[j].subject = before[i].subject
                          /\ after[j].type = before[i].type
                          /\ after[j].due_date = before[i].due_date
                          /\ after[j].description = before[i].description
                          /\ after[j].completed = before[i].completed
                          /\ after[j].created_at = before[i].created_at

(* C19.  Create never overwrites: a create that names an id some stored    *)
(* assignment holds, the caller's or another user's, is answered with an   *)
(* error (400 or 500) and leaves the table as it found it; and after any   *)
(* list, create or delete every row that is still stored is the row it     *)
(* was, so a row's fields change through update or sync only.              *)
C19_CreateNeverOverwrites ==
    /\ \A s \in Slots :
           (/\ Answers(s, "create")
            /\ ~Omitted(body[s].fields.id)
            /\ \E i \in 1..Len(pre) : pre[i].id = body[s].fields.id)
           => /\ resp[s].status \in {400, 500}
              /\ table = pre
    /\ \A s \in Slots : \A route \in {"list", "create", "delete"} :
           Answers(s, route) =>
               \A i \in 1..Len(pre), j \in 1..Len(table) :
                   pre[i].id = table[j].id => pre[i] = table[j]

\* A create with valid fields and an id the caller holds, with other
\* fields than the create's: refused, and the row is as it was.
C19_Witness ==
    \E s \in Slots :
        /\ Answers(s, "create")
        /\ Valid(body[s].fields)
        /\ Holds(pre, req[s].user, body[s].fields.id)
        /\ \E i \in 1..Len(pre) :
               /\ pre[i].id = body[s].fields.id
               /\ pre[i].title # body[s].fields.title
        /\ resp[s].status = 500
        /\ table = pre

(* C20.  A request without a credential, or with one that fails            *)
(* verification, is answered Unauthenticated (401); the step that answers  *)
(* it changes neither the users table nor any assignment row and starts    *)
(* no handler; and a request answered 401 has never reached a handler.     *)
C20_UnauthenticatedNoEffect ==
    /\ [](\A s \in Slots :
              /\ resp[s].status = 401 => (pc[s] = "done" /\ ord[s] = 0)
              /\ (pc[s] = "done" /\ req[s].user = NoUser)
                     => resp[s] = Response(401, "No token provided", <<>>))
    /\ [][\A s \in Slots :
              ((\E route \in Routes : NoToken(s, route)) \/ InvalidToken(s))
              => /\ resp'[s].status = 401
                 /\ pc'[s] = "done"
                 /\ users' = users
                 /\ table' = table
                 /\ runs' = runs
                 /\ ord' = ord]_vars

\* One request without a token and one whose token did not verify, on a
\* database with no user and no assignment: both answered, and it has none.
C20_Witness ==
    \E s \in Slots, t \in Slots :
        /\ resp[s] = Response(401, "No token provided", <<>>)
        /\ resp[t] = Response(401, "Invalid token", <<>>)
        /\ req[t].user = "B"
        /\ ~UpsertThrows(users, ReqUser(req[t]))
        /\ users = {}
        /\ table = <<>>
        /\ runs = 0

=============================================================================
